---- MODULE Spec2Model ----
(***************************************************************************)
(* Model of liquidity_dashboard.py: the FRED loader (load_fred_series,     *)
(* load_all_fred), the scoring function (compute_liquidity_scores) and the *)
(* top-level Streamlit script that renders the seven tabs.                 *)
(*                                                                         *)
(* Numbers.  A raw value or price is a cell [kind, v] with kind "num",     *)
(* "nan" or "inf".  A z-score is kept exactly, as the signed square root   *)
(* sgn * sqrt(num / den); floating point rounding enters where the script  *)
(* leaves the rationals' square roots, at the row sum: liquidity_z,        *)
(* liquidity_index and the rebased columns are fixed-point cells counting  *)
(* units of 1/Scale.                                                       *)
(***************************************************************************)
EXTENDS Integers, Sequences, FiniteSets, TLC

VARIABLES pc, error, resp, series, start_date, k, combined, fetched, raw, df,
          row, delta, df2, overlay, rendered, accesses

vars == << pc, error, resp, series, start_date, k, combined, fetched, raw, df,
           row, delta, df2, overlay, rendered, accesses >>

(* ------------------------------ bounds -------------------------------- *)
\* longest CSV body of a response in the loader specification
MaxCsvRows == 2
\* dates of the load_all_fred specification are 1..LoadDates
LoadDates == 2
\* longest frame handed to compute_liquidity_scores in the scoring specification
MaxRows == 3
\* largest raw TGA value of a scoring input frame
MaxVal == 1
\* largest increase applied to one TGA value
MaxDelta == 1
\* dates of a script run are 1..MaxDate
MaxDate == 3
\* largest price of a reference series
MaxPrice == 1
\* fixed-point resolution: a fixed-point cell counts units of 1/Scale
Scale == 1000

(* ----------------------------- constants ------------------------------ *)
\* 1 / 1e-9, the reciprocal of the standard deviation substituted for 0
EpsInv == 1000000000

FRED_SERIES ==
  << [label |-> "TGA (WTREGEN)",             sid |-> "WTREGEN"],
     [label |-> "Fed Balance Sheet (WALCL)", sid |-> "WALCL"],
     [label |-> "SOMA Holdings (WSHOMCB)",   sid |-> "WSHOMCB"],
     [label |-> "Bank Reserves (WRESBAL)",   sid |-> "WRESBAL"],
     [label |-> "Reverse Repo (ON RRP)",     sid |-> "RRPONTSYD"] >>

Labels == { FRED_SERIES[i].label : i \in 1..Len(FRED_SERIES) }

\* the column f"{col}_z"
ZName(label) ==
  CASE label = "TGA (WTREGEN)"             -> "TGA (WTREGEN)_z"
    [] label = "Fed Balance Sheet (WALCL)" -> "Fed Balance Sheet (WALCL)_z"
    [] label = "SOMA Holdings (WSHOMCB)"   -> "SOMA Holdings (WSHOMCB)_z"
    [] label = "Bank Reserves (WRESBAL)"   -> "Bank Reserves (WRESBAL)_z"
    [] label = "Reverse Repo (ON RRP)"     -> "Reverse Repo (ON RRP)_z"

(* ------------------------------ numbers ------------------------------- *)
Num(v) == [kind |-> "num", v |-> v]
NaN == [kind |-> "nan", v |-> 0]
Inf == [kind |-> "inf", v |-> 1]
IsNum(x) == x.kind = "num"

Sign(x) == IF x > 0 THEN 1 ELSE IF x < 0 THEN -1 ELSE 0

RECURSIVE SqrtSearch(_, _, _)
SqrtSearch(x, lo, hi) ==
  IF lo = hi THEN lo
  ELSE LET mid == (lo + hi + 1) \div 2
       IN IF mid * mid <= x THEN SqrtSearch(x, mid, hi)
                            ELSE SqrtSearch(x, lo, mid - 1)
\* floor of the square root
ISqrt(x) == SqrtSearch(x, 0, 46340)

\* a sequence given as a function, as the tuple of its elements
Tuple(f) == f \o << >>

RECURSIVE SeqSum(_)
SeqSum(s) == IF s = << >> THEN 0 ELSE Head(s) + SeqSum(Tail(s))

RECURSIVE SortedSeq(_)
\* the members of a set of integers, ascending
SortedSeq(S) ==
  IF S = {} THEN << >>
  ELSE LET m == CHOOSE x \in S : \A y \in S : x <= y
       IN << m >> \o SortedSeq(S \ {m})

\* all sequences over S of length at most n
SeqsUpTo(S, n) == UNION { [1..m -> S] : m \in 0..n }

(* ------------------------- load_fred_series --------------------------- *)
\* a CSV field: a parseable text carrying v, an empty field, or junk text
Field(kind, v) == [kind |-> kind, v |-> v]

\* pd.to_datetime(df["date"]): an empty field becomes NaT, text that is not
\* a date raises (errors="raise" is the default)
DateRaises(rows) == \E i \in 1..Len(rows) : rows[i].date.kind = "junk"
ToDatetime(f) == IF f.kind = "text" THEN Num(f.v) ELSE NaN

\* pd.to_numeric(df["value"], errors="coerce")
ToNumeric(f) == IF f.kind = "text" THEN Num(f.v) ELSE NaN

\* df.dropna(subset=["date", "value"])[["date", "value"]]
DropNaDateValue(rows) ==
  LET Keep(r) == IsNum(r.date) /\ IsNum(r.value)
  IN SelectSeq(rows, Keep)

ParseRows(rows) ==
  Tuple([i \in 1..Len(rows) |-> [date  |-> ToDatetime(rows[i].date),
                                 value |-> ToNumeric(rows[i].value)]])

\* resp.raise_for_status()
StatusRaises(r) == r.status >= 400

\* the whole call: the exception it raises, or the frame it returns
load_fred_series(r) ==
  IF StatusRaises(r) THEN [err |-> "HTTPError", rows |-> << >>]
  ELSE IF DateRaises(r.rows) THEN [err |-> "ValueError", rows |-> << >>]
  ELSE [err |-> "none", rows |-> DropNaDateValue(ParseRows(r.rows))]

NoError == [kind |-> "none", at |-> "none"]
Raised(kind, at) == [kind |-> kind, at |-> at]

\* line 28-29: requests.get, raise_for_status
FetchGet ==
  /\ pc = "line28"
  /\ IF StatusRaises(resp)
       THEN /\ pc' = "raised"
            /\ error' = Raised("HTTPError", "line29")
            /\ UNCHANGED series
       ELSE /\ pc' = "line34"
            /\ series' = resp.rows
            /\ UNCHANGED error
  /\ UNCHANGED << resp, start_date, k, combined, fetched, raw, df, row, delta,
                  df2, overlay, rendered, accesses >>

\* line 30-35: read_csv, rename, to_datetime, to_numeric
FetchParse ==
  /\ pc = "line34"
  /\ IF DateRaises(series)
       THEN /\ pc' = "raised"
            /\ error' = Raised("ValueError", "line34")
            /\ UNCHANGED series
       ELSE /\ pc' = "line36"
            /\ series' = ParseRows(series)
            /\ UNCHANGED error
  /\ UNCHANGED << resp, start_date, k, combined, fetched, raw, df, row, delta,
                  df2, overlay, rendered, accesses >>

\* line 36: dropna and return
FetchDropna ==
  /\ pc = "line36"
  /\ pc' = "loaded"
  /\ series' = DropNaDateValue(series)
  /\ UNCHANGED << error, resp, start_date, k, combined, fetched, raw, df, row,
                  delta, df2, overlay, rendered, accesses >>

\* the CSV rows a response can carry
CsvDates == { Field("text", 1), Field("text", 2), Field("empty", 0),
              Field("junk", 0) }
CsvValues == { Field("text", 5), Field("text", 7), Field("empty", 0),
               Field("junk", 0) }
CsvRows == [date : CsvDates, value : CsvValues]
CsvResponses ==
  { [status |-> 503, rows |-> << >>] } \cup
  { [status |-> 200, rows |-> rs] : rs \in SeqsUpTo(CsvRows, MaxCsvRows) }

\* combined: None, or a frame with its value columns and its rows
NoFrame == [none |-> TRUE, cols |-> {}, rows |-> << >>]
Frame(cols, rows) == [none |-> FALSE, cols |-> cols, rows |-> rows]

InitFetch ==
  /\ pc = "line28"
  /\ resp \in CsvResponses
  /\ error = NoError
  /\ series = << >>
  /\ start_date = 1
  /\ k = 1
  /\ combined = NoFrame
  /\ fetched = << >>
  /\ raw = << >>
  /\ df = << >>
  /\ row = 0
  /\ delta = 0
  /\ df2 = << >>
  /\ overlay = << >>
  /\ rendered = {}
  /\ accesses = {}

NextFetch == FetchGet \/ FetchParse \/ FetchDropna

SpecFetch == InitFetch /\ [][NextFetch]_vars

\* the rows of a response whose date and value both parse, as parsed
ParseableRows(rows) ==
  LET Keep(r) == r.date.kind = "text" /\ r.value.kind = "text"
      kept == SelectSeq(rows, Keep)
  IN [i \in 1..Len(kept) |-> [date  |-> Num(kept[i].date.v),
                              value |-> Num(kept[i].value.v)]]

\* C7: for a response fetched with success load_fred_series raises nothing,
\* drops each row whose date or value does not parse, and returns every
\* other row unchanged and in the order of the response.
UnparseableRowsSilentlyDropped ==
  (pc \in {"loaded", "raised"} /\ ~StatusRaises(resp)) =>
    /\ pc = "loaded"
    /\ error = NoError
    /\ series = ParseableRows(resp.rows)

(* --------------------------- load_all_fred ---------------------------- *)
\* df[df["date"] >= pd.to_datetime(start_date)]
FilterFrom(rows, start) ==
  LET Keep(r) == r.date.v >= start
  IN SelectSeq(rows, Keep)

\* .rename(columns={"value": label}); a frame row maps column names to cells
\* and "date" to the date
RenameValue(rows, label) ==
  Tuple([i \in 1..Len(rows) |->
           [c \in {"date", label} |-> IF c = "date" THEN rows[i].date.v
                                                     ELSE rows[i].value]])

Extend(r, c, v) == [x \in (DOMAIN r) \cup {c} |-> IF x = c THEN v ELSE r[x]]

RECURSIVE Flatten(_)
Flatten(ss) == IF ss = << >> THEN << >> ELSE Head(ss) \o Flatten(Tail(ss))

\* the rows of R with the key of row l
Matches(l, R) ==
  LET Same(r) == r["date"] = l["date"]
  IN SelectSeq(R, Same)

\* pd.merge(L, R, on="date", how="outer"), L with the value columns lcols
\* and R carrying the one column label: every left row with each of its
\* matches (a missing value without one), then the right rows no left row
\* matches
MergeOuter(L, lcols, R, label) ==
  LET LeftRows(l) ==
        LET m == Matches(l, R)
        IN IF m = << >> THEN << Extend(l, label, NaN) >>
           ELSE [j \in 1..Len(m) |-> Extend(l, label, m[j][label])]
      Unmatched(r) == Matches(r, L) = << >>
      rightOnly == SelectSeq(R, Unmatched)
  IN Flatten([i \in 1..Len(L) |-> LeftRows(L[i])]) \o
     [j \in 1..Len(rightOnly) |->
        [c \in lcols \cup {"date", label} |->
           IF c \in lcols THEN NaN ELSE rightOnly[j][c]]]

RECURSIVE InsertByDate(_, _)
InsertByDate(r, sorted) ==
  IF sorted = << >> THEN << r >>
  ELSE IF r["date"] < Head(sorted)["date"] THEN << r >> \o sorted
       ELSE << Head(sorted) >> \o InsertByDate(r, Tail(sorted))

RECURSIVE SortValues(_)
\* .sort_values("date")
SortValues(rows) ==
  IF rows = << >> THEN << >>
  ELSE InsertByDate(rows[Len(rows)], SortValues(SubSeq(rows, 1, Len(rows) - 1)))

\* .dropna(how="all"): only a row missing in every column is dropped
DropNaHowAll(rows) ==
  LET Keep(r) == \E c \in (DOMAIN r) \ {"date"} : IsNum(r[c])
  IN SelectSeq(rows, Keep)

\* .dropna(): a row with a missing value in any column is dropped
DropNa(rows) ==
  LET Keep(r) == \A c \in (DOMAIN r) \ {"date"} : IsNum(r[c])
  IN SelectSeq(rows, Keep)

\* line 41-44: one iteration of the loop over FRED_SERIES, fed a response
\* of Responses[k]; an exception of load_fred_series leaves the function
LoadAllFredLoop(Responses) ==
  /\ pc = "line42"
  /\ k <= Len(FRED_SERIES)
  /\ \E r \in Responses[k] :
       LET res == load_fred_series(r)
           cur == RenameValue(FilterFrom(res.rows, start_date),
                              FRED_SERIES[k].label)
       IN IF res.err # "none"
            THEN /\ pc' = "raised"
                 /\ error' = Raised(res.err, FRED_SERIES[k].sid)
                 /\ UNCHANGED << k, combined, fetched >>
            ELSE /\ combined' =
                   IF combined.none THEN Frame({FRED_SERIES[k].label}, cur)
                   ELSE Frame(combined.cols \cup {FRED_SERIES[k].label},
                              MergeOuter(combined.rows, combined.cols, cur,
                                         FRED_SERIES[k].label))
                 /\ fetched' = Append(fetched, res.rows)
                 /\ k' = k + 1
                 /\ pc' = IF k = Len(FRED_SERIES) THEN "line45" ELSE "line42"
                 /\ UNCHANGED error
  /\ UNCHANGED << resp, series, start_date, raw, df, row, delta, df2, overlay,
                  rendered, accesses >>

\* line 45: return combined.sort_values("date").dropna()
LoadAllFredReturn ==
  /\ pc = "line45"
  /\ raw' = DropNa(SortValues(combined.rows))
  /\ pc' = "line76"
  /\ UNCHANGED << error, resp, series, start_date, k, combined, fetched, df,
                  row, delta, df2, overlay, rendered, accesses >>

\* line 76: raw = load_all_fred(start_date); the locals of the call are gone
AssignRaw ==
  /\ pc = "line76"
  /\ pc' = "line77"
  /\ k' = 1
  /\ combined' = NoFrame
  /\ fetched' = << >>
  /\ UNCHANGED << error, resp, series, start_date, raw, df, row, delta, df2,
                  overlay, rendered, accesses >>

\* the value series number i reports on date d
ValueOn(i, d) == 10 * i + ((d * d + i * d) % 4)

\* the clean response of series number i that covers the dates of S
CleanResponse(i, S) ==
  LET ds == SortedSeq(S)
  IN [status |-> 200,
      rows |-> [j \in 1..Len(ds) |->
                  [date  |-> Field("text", ds[j]),
                   value |-> Field("text", ValueOn(i, ds[j]))]]]

\* what each catalog series can answer: its values on any set of dates
LoadResponses ==
  [i \in 1..Len(FRED_SERIES) |->
     { CleanResponse(i, S) : S \in SUBSET (1..LoadDates) }]

LoadLoop == LoadAllFredLoop(LoadResponses)

InitLoad ==
  /\ pc = "line42"
  /\ start_date \in 1..(LoadDates + 1)
  /\ k = 1
  /\ combined = NoFrame
  /\ fetched = << >>
  /\ raw = << >>
  /\ error = NoError
  /\ resp = [status |-> 200, rows |-> << >>]
  /\ series = << >>
  /\ df = << >>
  /\ row = 0
  /\ delta = 0
  /\ df2 = << >>
  /\ overlay = << >>
  /\ rendered = {}
  /\ accesses = {}

NextLoad == LoadLoop \/ LoadAllFredReturn

SpecLoad == InitLoad /\ [][NextLoad]_vars

\* the dates series number i (as load_fred_series returned it) has a value on
DatesOf(i) == { fetched[i][j].date.v : j \in 1..Len(fetched[i]) }

\* C1: the frame load_all_fred returns has a row for a date exactly when the
\* date is at or after start_date and each of the five series has a value on
\* it; no cell of the frame is missing; the rows ascend by date.
LoadedFrameIsCompleteAndSorted ==
  pc = "line76" =>
    /\ \A d \in 1..LoadDates :
         (\E i \in 1..Len(raw) : raw[i]["date"] = d)
           <=> (d >= start_date /\ \A s \in 1..Len(FRED_SERIES) : d \in DatesOf(s))
    /\ \A i \in 1..Len(raw) :
         /\ DOMAIN raw[i] = Labels \cup {"date"}
         /\ \A s \in 1..Len(FRED_SERIES) :
              raw[i][FRED_SERIES[s].label] = Num(ValueOn(s, raw[i]["date"]))
    /\ \A i, j \in 1..Len(raw) : i < j => raw[i]["date"] < raw[j]["date"]

\* a frame was returned that kept one date, dropped another for a series
\* without it, and had to be sorted
LoadedFrameWitness ==
  /\ pc = "line76"
  /\ Len(raw) >= 1
  /\ \E d \in 1..LoadDates :
       /\ d >= start_date
       /\ \E s \in 1..Len(FRED_SERIES) : d \notin DatesOf(s)
       /\ \E s \in 1..Len(FRED_SERIES) : d \in DatesOf(s)
  /\ combined.rows # SortValues(combined.rows)

(* ---------------------- compute_liquidity_scores ---------------------- *)
\* a z-score: missing, or the exact value sgn * sqrt(num / den), den > 0
ZNaN == [kind |-> "nan", sgn |-> 0, num |-> 0, den |-> 1]
ZVal(sgn, num, den) == [kind |-> "num", sgn |-> sgn, num |-> num, den |-> den]

\* a < b for two z-scores; a comparison with a missing value is false
ZLess(a, b) ==
  /\ IsNum(a)
  /\ IsNum(b)
  /\ a.sgn * a.num * b.den < b.sgn * b.num * a.den

ZIsZero(a) == IsNum(a) /\ a.sgn * a.num = 0

\* the nearest fixed-point number towards zero
Round(z) == z.sgn * ISqrt((z.num * Scale * Scale) \div z.den)

\* out[col] as the sequence of its values
ColumnOf(rows, col) == Tuple([i \in 1..Len(rows) |-> rows[i][col].v])

\* line 53-54: mean, std = out[col].mean(), out[col].std() or 1e-9, and the
\* column (out[col] - mean) / std.  With n rows, dev[i] is n * (x[i] - mean)
\* and ss is n * n * (n - 1) * the sample variance (ddof = 1).  std() of
\* fewer than two rows is NaN, which is truthy, so only a standard deviation
\* of 0.0 is replaced by 1e-9
ZScores(xs) ==
  LET n == Len(xs)
      sum == SeqSum(xs)
      dev == Tuple([i \in 1..n |-> n * xs[i] - sum])
      ss == SeqSum([i \in 1..n |-> dev[i] * dev[i]])
  IN Tuple([i \in 1..n |->
       IF n < 2 THEN ZNaN
       ELSE IF ss = 0
              THEN ZVal(Sign(dev[i]), dev[i] * dev[i] * EpsInv * EpsInv, n * n)
              ELSE ZVal(Sign(dev[i]), dev[i] * dev[i] * (n - 1), ss)])

\* line 56 alone: only the reverse repo z-score is negated
SignAdjustRRPOnly(label, z) ==
  IF label = "Reverse Repo (ON RRP)" THEN [z EXCEPT !.sgn = -z.sgn] ELSE z

\* line 55-56: out["TGA (WTREGEN)_z"] *= -1; out["Reverse Repo (ON RRP)_z"] *= -1
SignAdjust(label, z) ==
  IF label \in {"TGA (WTREGEN)", "Reverse Repo (ON RRP)"}
    THEN [z EXCEPT !.sgn = -z.sgn]
    ELSE z

\* .sum(axis=1, skipna=False): one missing value makes the sum missing
RowSumNoSkip(zs) ==
  IF \E j \in 1..Len(zs) : ~IsNum(zs[j]) THEN NaN
  ELSE Num(SeqSum([j \in 1..Len(zs) |-> Round(zs[j])]))

\* line 58: out[z_cols].sum(axis=1) of one row; the sum skips missing values
\* and is 0 when every value is missing
RowSum(zs) ==
  LET present == SelectSeq(zs, IsNum)
  IN Num(SeqSum([j \in 1..Len(present) |-> Round(present[j])]))

\* .rank(method="first", pct=True) * 100: ties ranked in the order of the rows
RankFirstPct100(vs, i) ==
  LET present == { j \in 1..Len(vs) : IsNum(vs[j]) }
      less == Cardinality({ j \in present : vs[j].v < vs[i].v })
      before == Cardinality({ j \in present : vs[j].v = vs[i].v /\ j < i })
  IN IF ~IsNum(vs[i]) THEN NaN
     ELSE Num((100 * Scale * (less + before + 1)) \div Cardinality(present))

\* line 59: out["liquidity_z"].rank(pct=True) * 100 at row i: the average
\* rank among the values present, over their number; missing stays missing
RankPct100(vs, i) ==
  LET present == { j \in 1..Len(vs) : IsNum(vs[j]) }
      less == Cardinality({ j \in present : vs[j].v < vs[i].v })
      same == Cardinality({ j \in present : vs[j].v = vs[i].v })
  IN IF ~IsNum(vs[i]) THEN NaN
     ELSE Num((100 * Scale * (2 * less + same + 1)) \div (2 * Cardinality(present)))

\* the frame with the z-score columns zcol, liquidity_z lz and its rank idx
WithScores(rows, zcol, lz, idx) ==
  [i \in 1..Len(rows) |->
     [c \in (DOMAIN rows[i]) \cup { ZName(l) : l \in Labels }
              \cup {"liquidity_z", "liquidity_index"} |->
        IF c \in DOMAIN rows[i] THEN rows[i][c]
        ELSE IF c = "liquidity_z" THEN lz[i]
        ELSE IF c = "liquidity_index" THEN idx[i]
        ELSE zcol[CHOOSE t \in 1..Len(FRED_SERIES) :
                    ZName(FRED_SERIES[t].label) = c][i]]]

\* line 58-59 on the sign-adjusted z-score columns
WithIndex(rows, zcol) ==
  LET lz == Tuple([i \in 1..Len(rows) |->
                     RowSum([s \in 1..Len(FRED_SERIES) |-> zcol[s][i]])])
  IN WithScores(rows, zcol, lz,
                Tuple([i \in 1..Len(rows) |-> RankPct100(lz, i)]))

compute_liquidity_scores(rows) ==
  WithIndex(rows,
            Tuple([s \in 1..Len(FRED_SERIES) |->
               LET zs == ZScores(ColumnOf(rows, FRED_SERIES[s].label))
               IN Tuple([i \in 1..Len(rows) |->
                           SignAdjust(FRED_SERIES[s].label, zs[i])])]))

\* line 77: df = compute_liquidity_scores(raw)
Score ==
  /\ pc = "line77"
  /\ df' = compute_liquidity_scores(raw)
  /\ pc' = "line78"
  /\ UNCHANGED << error, resp, series, start_date, k, combined, fetched, raw,
                  row, delta, df2, overlay, rendered, accesses >>

\* the frame with the TGA value of row i raised by d, all else as it was
RaiseTGA(rows, i, d) ==
  [rows EXCEPT ![i]["TGA (WTREGEN)"] = Num(rows[i]["TGA (WTREGEN)"].v + d)]

\* compute_liquidity_scores run again, on the frame with the TGA value of
\* one row raised
ScoreRaised ==
  /\ pc = "line78"
  /\ \E i \in 1..Len(raw), d \in 1..MaxDelta :
       /\ row' = i
       /\ delta' = d
       /\ df2' = compute_liquidity_scores(RaiseTGA(raw, i, d))
  /\ pc' = "compared"
  /\ UNCHANGED << error, resp, series, start_date, k, combined, fetched, raw,
                  df, overlay, rendered, accesses >>

\* the shapes the other columns of a scoring input take over n rows
Patterns == {"flat", "rising", "falling"}
PatternValue(p, i, n) ==
  CASE p = "flat"    -> MaxVal
    [] p = "rising"  -> i
    [] p = "falling" -> n + 1 - i

\* the input frames of the scoring specification: up to MaxRows rows, any
\* TGA values, every other column in one of the patterns
ScoreFrames ==
  UNION { { [i \in 1..n |->
              [c \in Labels \cup {"date"} |->
                 IF c = "date" THEN i
                 ELSE IF c = "TGA (WTREGEN)" THEN Num(tga[i])
                 ELSE Num(PatternValue(pat[c], i, n))]] :
            tga \in [1..n -> 0..MaxVal],
            pat \in [Labels \ {"TGA (WTREGEN)"} -> Patterns] } :
          n \in 0..MaxRows }

InitScore ==
  /\ pc = "line77"
  /\ raw \in ScoreFrames
  /\ row = 0
  /\ delta = 0
  /\ df = << >>
  /\ df2 = << >>
  /\ error = NoError
  /\ resp = [status |-> 200, rows |-> << >>]
  /\ series = << >>
  /\ start_date = 1
  /\ k = 1
  /\ combined = NoFrame
  /\ fetched = << >>
  /\ overlay = << >>
  /\ rendered = {}
  /\ accesses = {}

NextScore == Score \/ ScoreRaised

SpecScore == InitScore /\ [][NextScore]_vars

Scored == pc \in {"line78", "compared"}

\* C2: over the rows of the scored frame liquidity_index never decreases as
\* liquidity_z grows, so rows tied on liquidity_z share one liquidity_index.
IndexMonotoneInZ ==
  Scored =>
    \A a, b \in 1..Len(df) :
      df[a]["liquidity_z"].v <= df[b]["liquidity_z"].v
        => df[a]["liquidity_index"].v <= df[b]["liquidity_index"].v

\* a scored frame with two rows tied on liquidity_z and a third above them
IndexMonotoneWitness ==
  /\ Scored
  /\ \E a, b, c \in 1..Len(df) :
       /\ a # b
       /\ df[a]["liquidity_z"] = df[b]["liquidity_z"]
       /\ df[a]["liquidity_z"].v < df[c]["liquidity_z"].v
       /\ df[a]["liquidity_index"].v < df[c]["liquidity_index"].v

\* C3: liquidity_index of every row of the scored frame is a number between
\* 0 and 100, also for a single row and for columns without variance.
IndexInRange ==
  Scored =>
    \A i \in 1..Len(df) :
      /\ IsNum(df[i]["liquidity_index"])
      /\ df[i]["liquidity_index"].v >= 0
      /\ df[i]["liquidity_index"].v <= 100 * Scale

\* a single-row frame was scored: every z-score is missing, the index is 100
IndexInRangeWitness ==
  /\ Scored
  /\ Len(df) = 1
  /\ \A l \in Labels : ~IsNum(df[1][ZName(l)])
  /\ df[1]["liquidity_index"] = Num(100 * Scale)

\* the column is the same in every row of the frame
Constant(rows, col) == \A i, j \in 1..Len(rows) : rows[i][col] = rows[j][col]

\* C9: a catalog column with one value in every row (a single row included)
\* gets the z-score 0 in every row, and liquidity_z is the sum of the other
\* columns' sign-adjusted z-scores.
ZeroVarianceScoresZero ==
  Scored =>
    \A l \in Labels :
      Constant(raw, l) =>
        \A i \in 1..Len(df) :
          /\ ZIsZero(df[i][ZName(l)])
          /\ df[i]["liquidity_z"].v
               = SeqSum([s \in 1..Len(FRED_SERIES) |->
                          IF FRED_SERIES[s].label = l THEN 0
                          ELSE Round(df[i][ZName(FRED_SERIES[s].label)])])

TGA(rows, i) == rows[i]["TGA (WTREGEN)"].v

SameSideOfOthers ==
  \E c \in 0..(MaxVal + MaxDelta) :
    /\ \A j \in (1..Len(raw)) \ {row} : TGA(raw, j) = c
    /\ \/ TGA(raw, row) > c
       \/ TGA(raw, row) + delta < c

Access(at, index, len) == [at |-> at, index |-> index, len |-> len]
\* .iloc[0] and .iloc[-1] raise IndexError on an empty frame, .iloc[-2] on
\* a frame of fewer than two rows
InRange(a) == IF a.index >= 0 THEN a.index < a.len ELSE -a.index <= a.len

\* line 78: latest, prev = df.iloc[-1], df.iloc[-2]
LatestPrev ==
  /\ pc = "line78"
  /\ LET last == Access("line78", -1, Len(df))
         before == Access("line78", -2, Len(df))
     IN IF ~InRange(last)
          THEN /\ accesses' = accesses \cup {last}
               /\ error' = Raised("IndexError", "line78")
               /\ pc' = "raised"
          ELSE IF ~InRange(before)
                 THEN /\ accesses' = accesses \cup {last, before}
                      /\ error' = Raised("IndexError", "line78")
                      /\ pc' = "raised"
                 ELSE /\ accesses' = accesses \cup {last, before}
                      /\ pc' = "tab0"
                      /\ UNCHANGED error
  /\ UNCHANGED << resp, series, start_date, k, combined, fetched, raw, df, row,
                  delta, df2, overlay, rendered >>

\* line 85-93: Overview
TabOverview ==
  /\ pc = "tab0"
  /\ rendered' = rendered \cup {"Overview"}
  /\ pc' = "tab1"
  /\ UNCHANGED << error, resp, series, start_date, k, combined, fetched, raw,
                  df, row, delta, df2, overlay, accesses >>

\* line 95-97: Liquidity Score
TabLiquidityScore ==
  /\ pc = "tab1"
  /\ rendered' = rendered \cup {"Liquidity Score"}
  /\ pc' = "tab2"
  /\ UNCHANGED << error, resp, series, start_date, k, combined, fetched, raw,
                  df, row, delta, df2, overlay, accesses >>

\* line 99-102: Components
TabComponents ==
  /\ pc = "tab2"
  /\ rendered' = rendered \cup {"Components"}
  /\ pc' = "tab3"
  /\ UNCHANGED << error, resp, series, start_date, k, combined, fetched, raw,
                  df, row, delta, df2, overlay, accesses >>

\* .rename(columns={"value": "price"})
RenamePrice(rows) ==
  Tuple([i \in 1..Len(rows) |->
           [c \in {"date", "price"} |-> IF c = "date" THEN rows[i].date.v
                                                       ELSE rows[i].value]])

\* pd.merge(df[["date", "liquidity_index"]], P, on="date", how="inner"):
\* every row of df with each price row of its date, in the order of df
MergeInner(rows, P) ==
  Flatten(Tuple([i \in 1..Len(rows) |->
    LET m == Matches(rows[i], P)
    IN Tuple([j \in 1..Len(m) |->
                [c \in {"date", "liquidity_index", "price"} |->
                   IF c = "price" THEN m[j]["price"] ELSE rows[i][c]]])]))

\* a test that holds of no frame, such as overlay is None
NeverEmpty(ov) == FALSE

\* overlay.empty
Empty(ov) == Len(ov) = 0

\* a / b of two cells; the quotient of two numbers is a fixed-point number
Div(a, b) ==
  IF ~IsNum(a) \/ ~IsNum(b) THEN NaN
  ELSE IF b.v = 0 THEN (IF a.v = 0 THEN NaN ELSE Inf)
  ELSE Num((a.v * Scale) \div b.v)

\* overlay[col].iloc[-1], the anchor of the revision that rebases to the end
AnchorLast(ov, col) == ov[Len(ov)][col]

\* overlay[col].iloc[0], the value of the column at the anchor row
Anchor(ov, col) == ov[1][col]

\* line 109-110: liq_rebase and sp_rebase
Rebase(ov) ==
  Tuple([i \in 1..Len(ov) |->
    [c \in (DOMAIN ov[i]) \cup {"liq_rebase", "sp_rebase"} |->
       IF c = "liq_rebase"
         THEN Div(ov[i]["liquidity_index"], Anchor(ov, "liquidity_index"))
       ELSE IF c = "sp_rebase" THEN Div(ov[i]["price"], Anchor(ov, "price"))
       ELSE ov[i][c]]])

\* line 104-112: S&P 500; the fetch of SP500 is fed a response of Responses
TabSP500(Responses) ==
  /\ pc = "tab3"
  /\ \E r \in Responses :
       LET res == load_fred_series(r)
           sp == RenamePrice(res.rows)
           ov == MergeInner(df, sp)
           first == Access("tab3", 0, Len(ov))
       IN IF res.err # "none"
            THEN /\ error' = Raised(res.err, "SP500")
                 /\ pc' = "raised"
                 /\ UNCHANGED << series, overlay, rendered, accesses >>
            ELSE /\ series' = sp
                 /\ IF Empty(ov)
                      THEN /\ overlay' = ov
                           /\ rendered' = rendered \cup {"S&P 500"}
                           /\ pc' = "tab4"
                           /\ UNCHANGED << error, accesses >>
                      ELSE /\ accesses' = accesses \cup {first}
                           /\ IF InRange(first)
                                THEN /\ overlay' = Rebase(ov)
                                     /\ rendered' = rendered \cup {"S&P 500"}
                                     /\ pc' = "tab4"
                                     /\ UNCHANGED error
                                ELSE /\ overlay' = ov
                                     /\ error' = Raised("IndexError", "tab3")
                                     /\ pc' = "raised"
                                     /\ UNCHANGED rendered
  /\ UNCHANGED << resp, start_date, k, combined, fetched, raw, df, row, delta,
                  df2 >>

\* line 114-138 and 140-164: Bitcoin and Ethereum, alike but for the series,
\* the title and the colours; the fetch is fed a response of Responses
TabCoin(at, sid, title, next, Responses) ==
  /\ pc = at
  /\ \E r \in Responses :
       LET res == load_fred_series(r)
           coin == RenamePrice(res.rows)
           ov == MergeInner(df, coin)
           last == Access(at, -1, Len(ov))
       IN IF res.err # "none"
            THEN /\ error' = Raised(res.err, sid)
                 /\ pc' = "raised"
                 /\ UNCHANGED << series, overlay, rendered, accesses >>
            ELSE /\ series' = coin
                 /\ overlay' = ov
                 /\ IF Empty(ov)
                      THEN /\ rendered' = rendered \cup {title}
                           /\ pc' = next
                           /\ UNCHANGED << error, accesses >>
                      ELSE /\ accesses' = accesses \cup {last}
                           /\ IF InRange(last)
                                THEN /\ rendered' = rendered \cup {title}
                                     /\ pc' = next
                                     /\ UNCHANGED error
                                ELSE /\ error' = Raised("IndexError", at)
                                     /\ pc' = "raised"
                                     /\ UNCHANGED rendered
  /\ UNCHANGED << resp, start_date, k, combined, fetched, raw, df, row, delta,
                  df2 >>

\* line 166-168: Raw Data, the table and the CSV download
TabRawData ==
  /\ pc = "tab6"
  /\ rendered' = rendered \cup {"Raw Data"}
  /\ pc' = "line170"
  /\ UNCHANGED << error, resp, series, start_date, k, combined, fetched, raw,
                  df, row, delta, df2, overlay, accesses >>

\* line 170: st.success
Success ==
  /\ pc = "line170"
  /\ rendered' = rendered \cup {"success"}
  /\ pc' = "done"
  /\ UNCHANGED << error, resp, series, start_date, k, combined, fetched, raw,
                  df, row, delta, df2, overlay, accesses >>

Unavailable == [status |-> 503, rows |-> << >>]

\* what a catalog series answers in a run: nothing, or its values from
\* some first date on
RunResponses ==
  [i \in 1..Len(FRED_SERIES) |->
     {Unavailable} \cup
     { CleanResponse(i, f..MaxDate) : f \in 1..(MaxDate + 1) }]

\* what a price series answers in a run: nothing, or a price on some dates
PriceResponses ==
  {Unavailable} \cup
  UNION { { LET ds == SortedSeq(S)
            IN [status |-> 200,
                rows |-> [j \in 1..Len(ds) |->
                            [date  |-> Field("text", ds[j]),
                             value |-> Field("text", price[ds[j]])]]] :
            price \in [S -> 0..MaxPrice] } :
          S \in SUBSET (1..MaxDate) }

RunLoadLoop == LoadAllFredLoop(RunResponses)
RunTabSP500 == TabSP500(PriceResponses)
RunTabBitcoin == TabCoin("tab4", "CBBTCUSD", "Bitcoin", "tab5", PriceResponses)
RunTabEthereum == TabCoin("tab5", "CBETHUSD", "Ethereum", "tab6", PriceResponses)

\* line 65-71: the sidebar has given start_date; line 76 calls load_all_fred
Init ==
  /\ pc = "line42"
  /\ start_date \in 1..(MaxDate + 1)
  /\ k = 1
  /\ combined = NoFrame
  /\ fetched = << >>
  /\ raw = << >>
  /\ df = << >>
  /\ error = NoError
  /\ resp = [status |-> 200, rows |-> << >>]
  /\ series = << >>
  /\ row = 0
  /\ delta = 0
  /\ df2 = << >>
  /\ overlay = << >>
  /\ rendered = {}
  /\ accesses = {}

Next ==
  \/ RunLoadLoop
  \/ LoadAllFredReturn
  \/ AssignRaw
  \/ Score
  \/ LatestPrev
  \/ TabOverview
  \/ TabLiquidityScore
  \/ TabComponents
  \/ RunTabSP500
  \/ RunTabBitcoin
  \/ RunTabEthereum
  \/ TabRawData
  \/ Success

Spec == Init /\ [][Next]_vars

OverlayTabs == {"tab3", "tab4", "tab5"}

\* the dates of a frame
DatesIn(rows) == { rows[i]["date"] : i \in 1..Len(rows) }

\* C5 as stated: when the S&P 500 overlay is not empty, liq_rebase and
\* sp_rebase are both exactly 1.0 at its first row.
RebasedAnchorIsOne ==
  (pc = "tab4" /\ overlay # << >>) =>
    /\ overlay[1]["liq_rebase"] = Num(Scale)
    /\ overlay[1]["sp_rebase"] = Num(Scale)

\* C5 amended: when the S&P 500 overlay is not empty, liq_rebase is exactly
\* 1.0 at the first row of the joined range, and so is sp_rebase when the
\* price at that row is not 0; a price of 0 there leaves sp_rebase missing
\* at that row.
RebasedAnchorIsOneUnlessPriceZero ==
  (pc = "tab4" /\ overlay # << >>) =>
    /\ overlay[1]["date"]
         = CHOOSE d \in DatesIn(df) \cap DatesIn(series) :
             \A e \in DatesIn(df) \cap DatesIn(series) : d <= e
    /\ overlay[1]["liq_rebase"] = Num(Scale)
    /\ overlay[1]["price"].v # 0 => overlay[1]["sp_rebase"] = Num(Scale)
    /\ overlay[1]["price"].v = 0 => overlay[1]["sp_rebase"] = NaN

\* an overlay that starts after the first date of df was rebased to its own
\* first row, and its second row lies off 1.0
RebasedAnchorWitness ==
  /\ pc = "tab4"
  /\ Len(overlay) >= 2
  /\ overlay[1]["date"] # df[1]["date"]
  /\ overlay[1]["price"].v # 0
  /\ overlay[1]["sp_rebase"] = Num(Scale)
  /\ overlay[1]["liq_rebase"] = Num(Scale)
  /\ overlay[2]["liq_rebase"] # Num(Scale)

\* C6: an overlay of series without a common date is an empty table and
\* raises nothing, and no overlay tab reads the anchor row (iloc[0] or
\* iloc[-1]) of an empty overlay.
EmptyOverlayIsNeverIndexed ==
  /\ \A a \in accesses : a.at \in OverlayTabs => a.len > 0
  /\ ~(error.kind = "IndexError" /\ error.at \in OverlayTabs)
  /\ (pc \in {"tab4", "tab5", "tab6"} /\ DatesIn(df) \cap DatesIn(series) = {})
       => overlay = << >>

\* the Bitcoin tab went through with a price series that shares no date
\* with the index
EmptyOverlayWitness ==
  /\ pc = "tab5"
  /\ series # << >>
  /\ DatesIn(df) \cap DatesIn(series) = {}
  /\ overlay = << >>
  /\ "Bitcoin" \in rendered
  /\ \A a \in accesses : a.at # "tab4"

\* the steps of a run that need the optional series sid
StepsNeeding(sid) ==
  CASE sid = "SP500"    -> {"S&P 500"}
    [] sid = "CBBTCUSD" -> {"Bitcoin"}
    [] sid = "CBETHUSD" -> {"Ethereum"}

Steps == {"Overview", "Liquidity Score", "Components", "S&P 500", "Bitcoin",
          "Ethereum", "Raw Data"}

\* C8: when the fetch of one optional series fails, the liquidity index has
\* been computed and, by the end of the run, every step that does not need
\* that series has been carried out.  A run ends at "done" or, with the
\* exception nothing catches, at "raised".
OptionalFetchFailureIsIsolated ==
  \A sid \in {"SP500", "CBBTCUSD", "CBETHUSD"} :
    (pc = "raised" /\ error = Raised("HTTPError", sid)) =>
      /\ df # << >>
      /\ (Steps \ StepsNeeding(sid)) \subseteq rendered

\* C10: the last two rows of the scored frame are read only when it has two
\* rows or more; an empty or single-row frame raises no IndexError.
LatestPrevIsGuarded ==
  /\ \A a \in accesses : a.at = "line78" => a.len >= 2
  /\ error # Raised("IndexError", "line78")

====
